---- MODULE Spec2Model ----
(***************************************************************************)
(* A model of lib/fsm.py: the declarative finite state machine.  A class   *)
(* declares `transitions`, `state`, and methods decorated with @Action and *)
(* @Guard; FiniteStateMachine.__init__ builds the transition lookup table  *)
(* and transition(to, event) drives the machine.                           *)
(*                                                                         *)
(* Python exceptions are modelled as an `err` field: every                 *)
(* FiniteStateMachineError is told apart by the message it carries.        *)
(* A Python dict with optional keys is a record whose field is 0 when the  *)
(* key is absent; a stored callable is the index of its declaration.       *)
(***************************************************************************)
EXTENDS Integers, Sequences, FiniteSets, TLC

\* Bounds of the model: how many @Action / @Guard methods a class declares.
MaxActions == 2
MaxGuards == 2

None == "None"

\* The state names that decorators are bound to, the targets a caller asks
\* for, and the event payloads passed through to the actions.
BindNames == {"off", "on", "bogus"}
Targets == {"off", "on", "broken", "bogus", None}
Events == {None, "turn on"}

\* The `transitions` class attributes explored: the light bulb of tests.py,
\* a list with a self-transition and a repeated pair, and an empty list.
BulbTransitions ==
  << <<"off", "on">>, <<"on", "off">>, <<"off", "broken">>, <<"on", "broken">> >>
LoopTransitions ==
  << <<"off", "on">>, <<"on", "on">>, <<"off", "on">>, <<"on", "off">> >>
TransitionLists == {BulbTransitions, LoopTransitions, << >>}

\* The `state` class attributes explored.
InitialStates == {"off", "broken"}

\* What a guard call can produce (a bool, a non-bool, an exception) and what
\* an action call can produce (a normal return, an exception).
GuardResults == {"True", "False", "None", "raise"}
ActionResults == {"return", "raise"}

Range(s) == {s[i] : i \in 1..Len(s)}
SeqsUpTo(S, n) == UNION {[1..k -> S] : k \in 0..n}

\* Action.__call__: the metadata the decorator leaves on the method.
ActionDecls == [state : BindNames, on_enter : BOOLEAN, on_exit : BOOLEAN]
\* Guard.__call__: the metadata the decorator leaves on the predicate.
GuardDecls == [state : BindNames]

\* A class definition: what __get_actions__, __get_guards__,
\* self.transitions and self.state yield for it.  A class that declares no
\* `transitions` attribute at all has has_transitions = FALSE.
Classes ==
  [transitions : TransitionLists,
   actions : SeqsUpTo(ActionDecls, MaxActions),
   guards : SeqsUpTo(GuardDecls, MaxGuards),
   state : InitialStates,
   has_transitions : {TRUE}]
  \cup
  [transitions : {<< >>},
   actions : SeqsUpTo(ActionDecls, MaxActions),
   guards : SeqsUpTo(GuardDecls, MaxGuards),
   state : InitialStates,
   has_transitions : {FALSE}]

VARIABLES
  phase,     \* "new": class declared; "built": instance made; "failed": __init__ raised
  cls,       \* the class definition that was instantiated
  table,     \* self.__fsm_transition_table__
  state,     \* self.__state__
  error,     \* the error construction raised, "none" if none
  last,      \* the last transition call: arguments, error, trace of calls and writes
  returned,  \* what the last get_state() call returned
  threads    \* per thread, the locals of the transition call it is inside

vars == <<phase, cls, table, state, error, last, returned, threads>>

----------------------------------------------------------------------------
\* dict.has_key on a state's metadata dict
has_key(d, k) == d[k] # 0

EmptyDict == [on_enter |-> 0, on_exit |-> 0, guard |-> 0]
EmptyTable == [b \in {} |-> 0]

\* __get_states__: the endpoints of the declared pairs, in order of first use.
RECURSIVE get_states_from(_, _, _)
get_states_from(ts, i, states) ==
  IF i > Len(ts) THEN states
  ELSE LET begin == ts[i][1]
           end == ts[i][2]
           s1 == IF begin \notin Range(states) THEN Append(states, begin) ELSE states
           s2 == IF end \notin Range(s1) THEN Append(s1, end) ELSE s1
       IN get_states_from(ts, i + 1, s2)

get_states(ts) == get_states_from(ts, 1, << >>)

\* __create_state_map__, the loop over the actions (fsm.py 157-178).  The
\* `else` of each has_key test raises whatever flags the action carries.
RECURSIVE attach_actions(_, _, _, _)
attach_actions(actions, i, states, state_map) ==
  IF i > Len(actions) THEN [err |-> "none", map |-> state_map]
  ELSE
    LET state_name == actions[i].state IN
    IF state_name \notin Range(states)
    THEN [err |-> "UnknownState", map |-> state_map]
    ELSE IF has_key(state_map[state_name], "on_enter")
    THEN [err |-> "DuplicateEnterAction", map |-> state_map]
    ELSE
      LET m1 == IF actions[i].on_enter
                THEN [state_map EXCEPT ![state_name].on_enter = i]
                ELSE state_map
      IN IF has_key(m1[state_name], "on_exit")
         THEN [err |-> "DuplicateExitAction", map |-> m1]
         ELSE
           LET m2 == IF actions[i].on_exit
                     THEN [m1 EXCEPT ![state_name].on_exit = i]
                     ELSE m1
           IN attach_actions(actions, i + 1, states, m2)

\* __create_state_map__, the loop over the guards (fsm.py 180-192).
RECURSIVE attach_guards(_, _, _, _)
attach_guards(guards, i, states, state_map) ==
  IF i > Len(guards) THEN [err |-> "none", map |-> state_map]
  ELSE
    LET state_name == guards[i].state IN
    IF state_name \notin Range(states)
    THEN [err |-> "UnknownState", map |-> state_map]
    ELSE IF ~has_key(state_map[state_name], "guard")
    THEN attach_guards(guards, i + 1, states,
                       [state_map EXCEPT ![state_name].guard = i])
    ELSE [err |-> "DuplicateGuard", map |-> state_map]

\* __create_state_map__: an empty dict per state, then actions, then guards.
create_state_map(actions, guards, states) ==
  LET empty == [s \in Range(states) |-> EmptyDict]
      withActions == attach_actions(actions, 1, states, empty)
  IN IF withActions.err # "none" THEN withActions
     ELSE attach_guards(guards, 1, states, withActions.map)

\* fill_table with the entry stored under the begin state instead of the end
\* state (`transitions.update({ begin: transition })`).
RECURSIVE fill_table_keyed_by_begin(_, _, _, _)
fill_table_keyed_by_begin(ts, i, state_map, lookup_table) ==
  IF i > Len(ts) THEN lookup_table
  ELSE
    LET begin == ts[i][1]
        end == ts[i][2]
        transitions == IF begin \in DOMAIN lookup_table
                       THEN lookup_table[begin]
                       ELSE EmptyTable
        transition == IF begin \in DOMAIN transitions
                      THEN transitions[begin]
                      ELSE [beginning_state |-> state_map[begin],
                            end_state |-> state_map[end]]
    IN fill_table_keyed_by_begin(ts, i + 1, state_map,
         (begin :> ((begin :> transition) @@ transitions)) @@ lookup_table)

\* fill_table that also creates a row for the end state of every pair
\* (the pair entered in both directions).
RECURSIVE fill_table_both_ways(_, _, _, _)
fill_table_both_ways(ts, i, state_map, lookup_table) ==
  IF i > Len(ts) THEN lookup_table
  ELSE
    LET begin == ts[i][1]
        end == ts[i][2]
        forward == [beginning_state |-> state_map[begin], end_state |-> state_map[end]]
        backward == [beginning_state |-> state_map[end], end_state |-> state_map[begin]]
        row(t, s) == IF s \in DOMAIN t THEN t[s] ELSE EmptyTable
        t1 == (begin :> ((end :> forward) @@ row(lookup_table, begin))) @@ lookup_table
        t2 == (end :> ((begin :> backward) @@ row(t1, end))) @@ t1
    IN fill_table_both_ways(ts, i + 1, state_map, t2)

\* fill_table that starts a new row for every pair instead of fetching the
\* row the begin state already has.
RECURSIVE fill_table_new_row(_, _, _, _)
fill_table_new_row(ts, i, state_map, lookup_table) ==
  IF i > Len(ts) THEN lookup_table
  ELSE
    LET begin == ts[i][1]
        end == ts[i][2]
        transition == [beginning_state |-> state_map[begin],
                       end_state |-> state_map[end]]
    IN fill_table_new_row(ts, i + 1, state_map,
                          (begin :> (end :> transition)) @@ lookup_table)

\* __create_lookup_table__, the loop over self.transitions (fsm.py 128-142):
\* a row per begin state, an entry per end state; a repeated pair finds both
\* keys already set and changes nothing.
RECURSIVE fill_table(_, _, _, _)
fill_table(ts, i, state_map, lookup_table) ==
  IF i > Len(ts) THEN lookup_table
  ELSE
    LET begin == ts[i][1]
        end == ts[i][2]
        transitions == IF begin \in DOMAIN lookup_table
                       THEN lookup_table[begin]
                       ELSE EmptyTable
        transition == IF end \in DOMAIN transitions
                      THEN transitions[end]
                      ELSE [beginning_state |-> state_map[begin],
                            end_state |-> state_map[end]]
    IN fill_table(ts, i + 1, state_map,
                  (begin :> ((end :> transition) @@ transitions)) @@ lookup_table)

\* __get_guards__ that calls every candidate to find out whether it is a
\* predicate, instead of reading its __fsm_guard__ attribute.
get_guards_probing(c) ==
  [found |-> c.guards,
   calls |-> [i \in 1..Len(c.guards) |-> [fn |-> "guard", id |-> i, args |-> << >>, ret |-> "True"]]]

\* __get_actions__ / __get_callables__ (fsm.py 195-214): dir, getattr and
\* hasattr over the members of the object; the members found, and the calls
\* of actions and guards made on the way (none).
get_actions(c) == [found |-> c.actions, calls |-> << >>]

\* __get_guards__ / __get_callables__ (fsm.py 204-223), likewise.
get_guards(c) == [found |-> c.guards, calls |-> << >>]

\* __create_lookup_table__: actions and guards are collected first; then
\* __get_states__ reads self.transitions (an AttributeError if the class has
\* none) and raises on an empty list before the state map is built; any
\* error leaves no table.  `calls` are the actions and guards invoked.
create_lookup_table(c) ==
  LET actions == get_actions(c)
      guards == get_guards(c)
      calls == actions.calls \o guards.calls
  IN
  IF ~c.has_transitions
  THEN [err |-> "AttributeError", table |-> EmptyTable, calls |-> calls]
  ELSE IF c.transitions = << >>
  THEN [err |-> "NoTransitions", table |-> EmptyTable, calls |-> calls]
  ELSE
    LET states == get_states(c.transitions)
        sm == create_state_map(actions.found, guards.found, states)
    IN IF sm.err # "none"
       THEN [err |-> sm.err, table |-> EmptyTable, calls |-> calls]
       ELSE [err |-> "none",
             table |-> fill_table(c.transitions, 1, sm.map, EmptyTable),
             calls |-> calls]

\* __init__ that starts the machine in the begin state of the first declared
\* pair instead of self.state.
initial_state_first(c) == c.transitions[1][1]

\* fsm.py 117: self.__state__ = self.state
initial_state(c) == c.state

\* get_state
get_state(st) == st

----------------------------------------------------------------------------
\* One entry of the trace of a transition call: a callable fetched from the
\* metadata key `fn` was called with `args` and produced `ret`, or the field
\* __state__ was written.
Call(fn, id, args, ret) == [fn |-> fn, id |-> id, args |-> args, ret |-> ret]
Write(to) == [fn |-> "write", id |-> 0, args |-> <<to>>, ret |-> "return"]

\* `if not transitions` (fsm.py 254-255): no row, or an empty one.
row_missing(lookup_table, st) ==
  \/ st \notin DOMAIN lookup_table
  \/ DOMAIN lookup_table[st] = {}

\* `if not transition` (fsm.py 259-260).
transition_missing(transitions, to) == to \notin DOMAIN transitions

\* run_guard without the `if not allowed` test: a guard that returns False
\* lets the transition through.
run_guard_unchecked(tr, g) ==
  IF ~has_key(tr.end_state, "guard") THEN [err |-> "none", trace |-> << >>]
  ELSE
    LET t == << Call("guard", tr.end_state.guard, << >>, g) >> IN
    IF g = "raise" THEN [err |-> "GuardRaised", trace |-> t]
    ELSE IF g \notin {"True", "False"}
    THEN [err |-> "GuardContractViolation", trace |-> t]
    ELSE [err |-> "none", trace |-> t]

\* run_guard without the type test: any value that is not true declines.
run_guard_untyped(tr, g) ==
  IF ~has_key(tr.end_state, "guard") THEN [err |-> "none", trace |-> << >>]
  ELSE
    LET t == << Call("guard", tr.end_state.guard, << >>, g) >> IN
    IF g = "raise" THEN [err |-> "GuardRaised", trace |-> t]
    ELSE IF g # "True" THEN [err |-> "GuardRejected", trace |-> t]
    ELSE [err |-> "none", trace |-> t]

\* fsm.py 264-271: the guard of the end state, called with no arguments.
run_guard(tr, g) ==
  IF ~has_key(tr.end_state, "guard") THEN [err |-> "none", trace |-> << >>]
  ELSE
    LET t == << Call("guard", tr.end_state.guard, << >>, g) >> IN
    IF g = "raise" THEN [err |-> "GuardRaised", trace |-> t]
    ELSE IF g \notin {"True", "False"}
    THEN [err |-> "GuardContractViolation", trace |-> t]
    ELSE IF g # "True" THEN [err |-> "GuardRejected", trace |-> t]
    ELSE [err |-> "none", trace |-> t]

\* run_exit wrapped in a try/except that swallows the action's exception.
run_exit_swallowing(tr, event, x) ==
  IF ~has_key(tr.beginning_state, "on_exit") THEN [err |-> "none", trace |-> << >>]
  ELSE [err |-> "none",
        trace |-> << Call("on_exit", tr.beginning_state.on_exit, <<event>>, x) >>]

\* fsm.py 273-274: the on_exit action of the beginning state, called with event.
run_exit(tr, event, x) ==
  IF ~has_key(tr.beginning_state, "on_exit") THEN [err |-> "none", trace |-> << >>]
  ELSE [err |-> IF x = "raise" THEN "ActionRaised" ELSE "none",
        trace |-> << Call("on_exit", tr.beginning_state.on_exit, <<event>>, x) >>]

\* run_enter that calls the action without the event.
run_enter_without_event(tr, event, n) ==
  IF ~has_key(tr.end_state, "on_enter") THEN [err |-> "none", trace |-> << >>]
  ELSE [err |-> IF n = "raise" THEN "ActionRaised" ELSE "none",
        trace |-> << Call("on_enter", tr.end_state.on_enter, << >>, n) >>]

\* fsm.py 276-277: the on_enter action of the end state, called with event.
run_enter(tr, event, n) ==
  IF ~has_key(tr.end_state, "on_enter") THEN [err |-> "none", trace |-> << >>]
  ELSE [err |-> IF n = "raise" THEN "ActionRaised" ELSE "none",
        trace |-> << Call("on_enter", tr.end_state.on_enter, <<event>>, n) >>]

\* The final write that keeps the old state (`self.__state__ = self.__state__`).
commit_stale(st, to) == st

\* fsm.py 279: self.__state__ = to
commit(st, to) == to

\* transition with the write of __state__ moved up, right after the lookup of
\* the transition and before the guard and the actions.
transition_commit_first(lookup_table, st, to, event, g, x, n) ==
  IF row_missing(lookup_table, st)
  THEN [state |-> st, err |-> "InvalidCurrentState", trace |-> << >>]
  ELSE IF transition_missing(lookup_table[st], to)
  THEN [state |-> st, err |-> "IllegalTransition", trace |-> << >>]
  ELSE
    LET tr == lookup_table[st][to]
        gd == run_guard(tr, g)
        wr == << Write(to) >>
    IN IF gd.err # "none"
       THEN [state |-> to, err |-> gd.err, trace |-> wr \o gd.trace]
       ELSE
         LET ex == run_exit(tr, event, x) IN
         IF ex.err # "none"
         THEN [state |-> to, err |-> ex.err, trace |-> wr \o gd.trace \o ex.trace]
         ELSE
           LET en == run_enter(tr, event, n) IN
           [state |-> to, err |-> en.err,
            trace |-> wr \o gd.trace \o ex.trace \o en.trace]

\* transition(to, event) on a machine whose __state__ is st; g, x and n are
\* what the guard, the exit action and the enter action produce if called.
\* The result is the new __state__, the error raised and the trace.
transition(lookup_table, st, to, event, g, x, n) ==
  IF row_missing(lookup_table, st)
  THEN [state |-> st, err |-> "InvalidCurrentState", trace |-> << >>]
  ELSE IF transition_missing(lookup_table[st], to)
  THEN [state |-> st, err |-> "IllegalTransition", trace |-> << >>]
  ELSE
    LET tr == lookup_table[st][to]
        gd == run_guard(tr, g)
    IN IF gd.err # "none"
       THEN [state |-> st, err |-> gd.err, trace |-> gd.trace]
       ELSE
         LET ex == run_exit(tr, event, x) IN
         IF ex.err # "none"
         THEN [state |-> st, err |-> ex.err, trace |-> gd.trace \o ex.trace]
         ELSE
           LET en == run_enter(tr, event, n) IN
           IF en.err # "none"
           THEN [state |-> st, err |-> en.err,
                 trace |-> gd.trace \o ex.trace \o en.trace]
           ELSE [state |-> commit(st, to), err |-> "none",
                 trace |-> gd.trace \o ex.trace \o en.trace \o << Write(to) >>]

----------------------------------------------------------------------------
NoClass ==
  [transitions |-> << >>, actions |-> << >>, guards |-> << >>, state |-> None,
   has_transitions |-> FALSE]
\* The threads that call transition on one shared instance, and the locals of
\* a thread that is in no call.
Threads == {"t1", "t2"}
Idle == [pc |-> "idle", to |-> None, event |-> None, from |-> None,
         err |-> "none", overwrote |-> None]

NoCall == [from |-> None, to |-> None, event |-> None, err |-> "none", trace |-> << >>]

Init ==
  /\ phase = "new"
  /\ cls = NoClass
  /\ table = EmptyTable
  /\ state = None
  /\ error = "none"
  /\ last = NoCall
  /\ returned = None
  /\ threads = [t \in Threads |-> Idle]

\* FiniteStateMachine.__init__ on a class c: build the table, then set
\* __state__; an error raised by the build leaves no instance.
Construct ==
  /\ phase = "new"
  /\ \E c \in Classes :
       LET built == create_lookup_table(c) IN
         /\ cls' = c
         /\ error' = built.err
         /\ table' = built.table
         /\ phase' = IF built.err = "none" THEN "built" ELSE "failed"
         /\ state' = IF built.err = "none" THEN initial_state(c) ELSE None
         /\ last' = [NoCall EXCEPT !.trace = built.calls]
  /\ UNCHANGED <<returned, threads>>

\* The results a callable stored under `key` of the `side` metadata of the
\* transition from st to `to` can produce: only a callable that the table
\* holds can be called, so only then is there more than one outcome.
Outcomes(lookup_table, st, to, side, key, results, default) ==
  IF /\ ~row_missing(lookup_table, st)
     /\ ~transition_missing(lookup_table[st], to)
     /\ has_key(lookup_table[st][to][side], key)
  THEN results
  ELSE {default}

\* A caller invokes transition(to, event) on the instance.
Transition ==
  /\ phase = "built"
  /\ \E to \in Targets, event \in Events :
     \E g \in Outcomes(table, state, to, "end_state", "guard", GuardResults, "True"),
        x \in Outcomes(table, state, to, "beginning_state", "on_exit", ActionResults, "return"),
        n \in Outcomes(table, state, to, "end_state", "on_enter", ActionResults, "return") :
       LET r == transition(table, state, to, event, g, x, n) IN
         /\ state' = r.state
         /\ last' = [from |-> state, to |-> to, event |-> event,
                     err |-> r.err, trace |-> r.trace]
  /\ UNCHANGED <<phase, cls, table, error, returned, threads>>

\* A caller invokes get_state() on the instance.
GetState ==
  /\ phase = "built"
  /\ returned' = get_state(state)
  /\ UNCHANGED <<phase, cls, table, state, error, last, threads>>

Next == Construct \/ Transition \/ GetState

Spec == Init /\ [][Next]_vars

----------------------------------------------------------------------------
\* Unsynchronized use: several threads call transition on one instance.  A
\* call is a sequence of steps; between two steps another thread may run.
\* The only shared reads and writes are the read of __state__ at fsm.py 254
\* and the write at 279; `transitions` and `transition` are locals.

\* The LightBulb class of tests.py (35-61); dir() lists smash, turn_off,
\* turn_on in this order.
LightBulb ==
  [transitions |-> BulbTransitions,
   actions |-> << [state |-> "broken", on_enter |-> TRUE, on_exit |-> FALSE],
                  [state |-> "off", on_enter |-> TRUE, on_exit |-> FALSE],
                  [state |-> "on", on_enter |-> TRUE, on_exit |-> FALSE] >>,
   guards |-> << [state |-> "on"] >>,
   state |-> "off",
   has_transitions |-> TRUE]

ConcInit ==
  /\ phase = "built"
  /\ cls = LightBulb
  /\ table = create_lookup_table(LightBulb).table
  /\ state = initial_state(LightBulb)
  /\ error = "none"
  /\ last = NoCall
  /\ returned = None
  /\ threads = [t \in Threads |-> Idle]

\* The transition a thread fetched into its local at fsm.py 259.
Local(t) == table[threads[t].from][threads[t].to]

\* What a step that produced error e (or none) leads to.
After(t, e, next) ==
  [threads EXCEPT ![t].pc = IF e = "none" THEN next ELSE "done", ![t].err = e]

\* fsm.py 254-262: thread t enters transition(to, event), reads __state__ and
\* looks the row and the transition up.
Begin(t) ==
  /\ threads[t].pc = "idle"
  /\ \E to \in Targets, event \in Events :
       LET e == IF row_missing(table, state) THEN "InvalidCurrentState"
                ELSE IF transition_missing(table[state], to) THEN "IllegalTransition"
                ELSE "none"
       IN threads' = [After(t, e, "guard") EXCEPT
                        ![t].to = to, ![t].event = event, ![t].from = state]
  /\ UNCHANGED <<phase, cls, table, state, error, last, returned>>

\* fsm.py 264-271: thread t runs the guard of the end state.
GuardStep(t) ==
  /\ threads[t].pc = "guard"
  /\ \E g \in GuardResults :
       threads' = After(t, run_guard(Local(t), g).err, "exit")
  /\ UNCHANGED <<phase, cls, table, state, error, last, returned>>

\* fsm.py 273-274: thread t runs the exit action of the beginning state.
ExitStep(t) ==
  /\ threads[t].pc = "exit"
  /\ \E x \in ActionResults :
       threads' = After(t, run_exit(Local(t), threads[t].event, x).err, "enter")
  /\ UNCHANGED <<phase, cls, table, state, error, last, returned>>

\* fsm.py 276-277: thread t runs the enter action of the end state.
EnterStep(t) ==
  /\ threads[t].pc = "enter"
  /\ \E n \in ActionResults :
       threads' = After(t, run_enter(Local(t), threads[t].event, n).err, "write")
  /\ UNCHANGED <<phase, cls, table, state, error, last, returned>>

\* fsm.py 279: thread t writes __state__; `overwrote` keeps the value it
\* replaced.
WriteStep(t) ==
  /\ threads[t].pc = "write"
  /\ state' = commit(state, threads[t].to)
  /\ threads' = [threads EXCEPT ![t].pc = "done", ![t].overwrote = state]
  /\ UNCHANGED <<phase, cls, table, error, last, returned>>

\* The call of thread t returns or raises; the thread may call again.
Return(t) ==
  /\ threads[t].pc = "done"
  /\ threads' = [threads EXCEPT ![t] = Idle]
  /\ UNCHANGED <<phase, cls, table, state, error, last, returned>>

ConcNext ==
  \E t \in Threads :
    \/ Begin(t)
    \/ GuardStep(t)
    \/ ExitStep(t)
    \/ EnterStep(t)
    \/ WriteStep(t)
    \/ Return(t)

SpecConc == ConcInit /\ [][ConcNext]_vars

----------------------------------------------------------------------------
\* What the class declares, read off the declarations (not off the table).
Pairs == Range(cls.transitions)
Declared(s, t) == <<s, t>> \in Pairs
HasOutgoing(s) == \E p \in Pairs : p[1] = s
GuardsOf(s) == {i \in 1..Len(cls.guards) : cls.guards[i].state = s}
EnterActionsOf(s) ==
  {i \in 1..Len(cls.actions) : cls.actions[i].state = s /\ cls.actions[i].on_enter}
ExitActionsOf(s) ==
  {i \in 1..Len(cls.actions) : cls.actions[i].state = s /\ cls.actions[i].on_exit}

\* A transition call has been made on the instance; `last` describes it.
Called == phase = "built" /\ last.from # None

\* The positions of the trace where a callable fetched from key fn was called.
CallsOf(fn) == {k \in 1..Len(last.trace) : last.trace[k].fn = fn}
Wrote == CallsOf("write") # {}

\* C1: a transition along a declared pair whose target state has a guard that
\* returns False fails with the guard-rejected error, leaves the current
\* state unchanged and invokes neither the exit action of the current state
\* nor the enter action of the target state.
C1_GuardRejected ==
  (/\ Called
   /\ Declared(last.from, last.to)
   /\ GuardsOf(last.to) # {}
   /\ \E k \in CallsOf("guard") : last.trace[k].ret = "False")
  => /\ last.err = "GuardRejected"
     /\ state = last.from
     /\ ~Wrote
     /\ CallsOf("on_exit") = {}
     /\ CallsOf("on_enter") = {}

\* C1 witness: a guard turned down a transition whose begin state has an exit
\* action and whose target state has an enter action.
C1_Witness ==
  /\ Called
  /\ last.err = "GuardRejected"
  /\ ExitActionsOf(last.from) # {}
  /\ EnterActionsOf(last.to) # {}
  /\ \E k \in CallsOf("guard") : last.trace[k].ret = "False"

\* C2: the current state is committed only after both actions returned
\* normally: if the exit action raises, the enter action is never invoked and
\* the state keeps its old value; if the enter action raises, the exit action
\* (when the begin state has one) has already run to completion and the state
\* still keeps its old value.
C2_CommitAfterActions ==
  Called =>
    /\ \A k \in CallsOf("on_exit") :
         last.trace[k].ret = "raise" =>
           /\ CallsOf("on_enter") = {}
           /\ ~Wrote
           /\ state = last.from
           /\ last.err = "ActionRaised"
    /\ \A k \in CallsOf("on_enter") :
         last.trace[k].ret = "raise" =>
           /\ ~Wrote
           /\ state = last.from
           /\ last.err = "ActionRaised"
           /\ ExitActionsOf(last.from) # {} =>
                \E j \in CallsOf("on_exit") :
                  j < k /\ last.trace[j].ret = "return"
    /\ \A w \in CallsOf("write") :
         /\ w = Len(last.trace)
         /\ \A k \in 1..(w - 1) : last.trace[k].ret \in {"True", "return"}

\* C2 witness: the enter action raised after the exit action had returned.
C2_Witness ==
  /\ Called
  /\ \E j \in CallsOf("on_exit"), k \in CallsOf("on_enter") :
       j < k /\ last.trace[j].ret = "return" /\ last.trace[k].ret = "raise"
  /\ last.from # last.to

\* The trace of a successful transition(to, event) from state s, as the
\* class declarations prescribe it.
ExpectedTrace(s, to, event) ==
  (IF GuardsOf(to) = {} THEN << >>
   ELSE << Call("guard", CHOOSE i \in GuardsOf(to) : TRUE, << >>, "True") >>)
  \o (IF ExitActionsOf(s) = {} THEN << >>
      ELSE << Call("on_exit", CHOOSE i \in ExitActionsOf(s) : TRUE, <<event>>, "return") >>)
  \o (IF EnterActionsOf(to) = {} THEN << >>
      ELSE << Call("on_enter", CHOOSE i \in EnterActionsOf(to) : TRUE, <<event>>, "return") >>)
  \o << Write(to) >>

\* C3 (as amended): within one successful transition(to, event) call the steps
\* happen in the fixed order guard of the target state (no arguments), exit
\* action of the begin state (event), enter action of the target state
\* (event), write of current_state = to; each step that has metadata happens
\* exactly once and a step is skipped only when its metadata is absent; the
\* only guard consulted is the target state's, so the guard of the begin
\* state is consulted only when the begin state is itself the target.
C3_StepOrder ==
  (Called /\ last.err = "none") =>
    /\ last.trace = ExpectedTrace(last.from, last.to, last.event)
    /\ \A k \in CallsOf("guard") :
         /\ cls.guards[last.trace[k].id].state = last.to
         /\ cls.guards[last.trace[k].id].state = last.from => last.from = last.to

\* C3 as stated: the same, with the guard of the begin state never consulted
\* in any successful call.
C3_Original ==
  (Called /\ last.err = "none") =>
    /\ last.trace = ExpectedTrace(last.from, last.to, last.event)
    /\ \A k \in CallsOf("guard") :
         cls.guards[last.trace[k].id].state # last.from

\* C3 witness: a successful call between two different states that ran all
\* four steps with an event, the begin state having a guard of its own.
C3_Witness ==
  /\ Called
  /\ last.err = "none"
  /\ Len(last.trace) = 4
  /\ last.event # None
  /\ last.from # last.to
  /\ GuardsOf(last.from) # {}

\* C4: from a current state s that has an outgoing declared transition, a
\* call transition(to) for a target such that (s, to) is not declared (to = s
\* and to = None included) fails with the illegal-transition error, leaves
\* the state s and invokes no guard and no action.
C4_IllegalTransition ==
  (Called /\ HasOutgoing(last.from) /\ ~Declared(last.from, last.to)) =>
    /\ last.err = "IllegalTransition"
    /\ state = last.from
    /\ last.trace = << >>

\* C4 witness: transition(to = s) was refused in a state s that has outgoing
\* transitions and a guard and an enter action of its own.
C4_Witness ==
  /\ Called
  /\ HasOutgoing(last.from)
  /\ last.to = last.from
  /\ ~Declared(last.from, last.to)
  /\ last.err = "IllegalTransition"
  /\ GuardsOf(last.to) # {}
  /\ EnterActionsOf(last.to) # {}

\* C5: a terminal state is absorbing: once the current state has no outgoing
\* row, no step changes it, and every transition call made in it, whatever
\* the target, fails with the invalid-current-state error without invoking
\* any guard or action.
C5_TerminalAbsorbing ==
  [][(phase = "built" /\ ~HasOutgoing(state)) =>
       /\ state' = state
       /\ last' # last =>
            /\ last'.from = state
            /\ last'.err = "InvalidCurrentState"
            /\ last'.trace = << >>]_vars

\* C5 witness: the machine moved into a state without outgoing transitions
\* and a later call for a declared, guarded target was refused there.
C5_Witness ==
  /\ Called
  /\ ~HasOutgoing(state)
  /\ HasOutgoing(cls.state)
  /\ last.from = state
  /\ last.err = "InvalidCurrentState"
  /\ GuardsOf(last.to) # {}
  /\ \E p \in Pairs : p[2] = last.to

\* C6: a transition(to, event) call from state s succeeds if and only if
\* (s, to) is a declared pair, the target state has no guard or its guard
\* returned True, and no invoked action raised; after a successful call
\* get_state() returns to and the enter action of to, if any, has run.
C6_SuccessIff ==
  Called =>
    /\ last.err = "none" <=>
         /\ Declared(last.from, last.to)
         /\ \/ GuardsOf(last.to) = {}
            \/ \E k \in CallsOf("guard") : last.trace[k].ret = "True"
         /\ \A k \in CallsOf("on_exit") \cup CallsOf("on_enter") :
              last.trace[k].ret # "raise"
    /\ last.err = "none" =>
         /\ get_state(state) = last.to
         /\ \A i \in EnterActionsOf(last.to) :
              \E k \in CallsOf("on_enter") :
                last.trace[k].id = i /\ last.trace[k].ret = "return"

\* C6 witness: a call succeeded into a different state that has a guard and
\* an enter action.
C6_Witness ==
  /\ Called
  /\ last.err = "none"
  /\ last.from # last.to
  /\ GuardsOf(last.to) # {}
  /\ EnterActionsOf(last.to) # {}
  /\ state = last.to

----------------------------------------------------------------------------
\* Construction has been attempted; cls is the class it was attempted on.
Constructed == phase # "new"

\* The state universe of the class: the endpoints of its declared pairs.
Endpoints == {p[1] : p \in Pairs} \cup {p[2] : p \in Pairs}

\* Every action and guard of the class is bound to an endpoint.
AllBound ==
  /\ \A i \in 1..Len(cls.actions) : cls.actions[i].state \in Endpoints
  /\ \A i \in 1..Len(cls.guards) : cls.guards[i].state \in Endpoints

\* The duplicate errors that the declarations of the class call for.
DuplicatesDeclared ==
  {k \in {"DuplicateEnterAction"} : \E s \in BindNames : Cardinality(EnterActionsOf(s)) > 1}
  \cup {k \in {"DuplicateExitAction"} : \E s \in BindNames : Cardinality(ExitActionsOf(s)) > 1}
  \cup {k \in {"DuplicateGuard"} : \E s \in BindNames : Cardinality(GuardsOf(s)) > 1}

\* C7: if a state is the target of two actions with on_enter=true, or of two
\* actions with on_exit=true, or of two guards, construction fails with the
\* corresponding duplicate error and produces no instance.  Stated for the
\* classes in which no other configuration error can come first: the
\* transition list is not empty and every binding names a declared state.
C7_DuplicateRejected ==
  (Constructed /\ Pairs # {} /\ AllBound /\ DuplicatesDeclared # {}) =>
    /\ phase = "failed"
    /\ error \in DuplicatesDeclared
    /\ DOMAIN table = {}
    /\ state = None

\* C8: if an action or a guard is bound to a state name that is no endpoint
\* of a declared pair, construction fails with the unknown-state error and
\* produces no instance.  Stated for the classes in which no other
\* configuration error is called for: the transition list is not empty and
\* no state has two enter actions, two exit actions or two guards.
C8_UnknownStateRejected ==
  (Constructed /\ Pairs # {} /\ DuplicatesDeclared = {} /\ ~AllBound) =>
    /\ phase = "failed"
    /\ error = "UnknownState"
    /\ DOMAIN table = {}
    /\ state = None

\* C9: construction raises the duplicate-enter-action error only when two
\* actions with on_enter=true are bound to one state and the
\* duplicate-exit-action error only when two actions with on_exit=true are;
\* a class with declared transitions, bindings on declared states and no
\* such duplicates (one enter-only and one exit-only action on a state, in
\* either order, included) builds, with each state's enter and exit action
\* in its metadata.
C9_DuplicateOnlyWhenDeclared ==
  Constructed =>
    /\ error = "DuplicateEnterAction" => "DuplicateEnterAction" \in DuplicatesDeclared
    /\ error = "DuplicateExitAction" => "DuplicateExitAction" \in DuplicatesDeclared
    /\ (Pairs # {} /\ AllBound /\ DuplicatesDeclared = {}) =>
         /\ phase = "built"
         /\ \A p \in Pairs :
              /\ \A i \in ExitActionsOf(p[1]) :
                   table[p[1]][p[2]].beginning_state.on_exit = i
              /\ \A i \in EnterActionsOf(p[2]) :
                   table[p[1]][p[2]].end_state.on_enter = i

\* The actions of a class that carry neither flag, and the class without them.
Inert == {i \in 1..Len(cls.actions) : ~cls.actions[i].on_enter /\ ~cls.actions[i].on_exit}
RECURSIVE Flagged(_)
Flagged(actions) ==
  IF actions = << >> THEN << >>
  ELSE IF Head(actions).on_enter \/ Head(actions).on_exit
       THEN <<Head(actions)>> \o Flagged(Tail(actions))
       ELSE Flagged(Tail(actions))

\* C10: an action with on_enter=false and on_exit=false on a declared state
\* is legal and inert: construction fails only if it also fails for the
\* class without its flagless actions on declared states, whatever the other
\* actions and the order, and no transition ever invokes such an action.
C10_InertAction ==
  /\ (Constructed /\ \A i \in Inert : cls.actions[i].state \in Endpoints) =>
       (phase = "failed" =>
          create_lookup_table([cls EXCEPT !.actions = Flagged(cls.actions)]).err # "none")
  /\ Called =>
       \A k \in CallsOf("on_exit") \cup CallsOf("on_enter") : last.trace[k].id \notin Inert

----------------------------------------------------------------------------
\* C11: for every machine that construction produces, get_state() called
\* before any transition returns the declared initial state.
C11_InitialState ==
  (phase = "built" /\ last.from = None /\ returned # None) => returned = cls.state

\* C11 witness: get_state() answered on a fresh machine whose declared initial
\* state is not the begin state of the first declared pair.
C11_Witness ==
  /\ phase = "built"
  /\ last.from = None
  /\ returned = cls.state
  /\ cls.state # cls.transitions[1][1]

\* C12: a transition along a declared pair whose target guard returns a value
\* that is not a boolean fails with the guard-contract-violation error,
\* leaves the current state unchanged and invokes no exit or enter action.
C12_GuardContract ==
  (/\ Called
   /\ Declared(last.from, last.to)
   /\ GuardsOf(last.to) # {}
   /\ \E k \in CallsOf("guard") : last.trace[k].ret \notin {"True", "False", "raise"})
  => /\ last.err = "GuardContractViolation"
     /\ state = last.from
     /\ ~Wrote
     /\ CallsOf("on_exit") = {}
     /\ CallsOf("on_enter") = {}

\* C12 witness: a guard returned None on a transition whose begin state has
\* an exit action and whose target state has an enter action.
C12_Witness ==
  /\ Called
  /\ last.err = "GuardContractViolation"
  /\ ExitActionsOf(last.from) # {}
  /\ EnterActionsOf(last.to) # {}
  /\ \E k \in CallsOf("guard") : last.trace[k].ret = "None"

\* C13 (as amended): the initial state of a machine that construction
\* produces is the `state` the class declares, endpoint or not: construction
\* does not check it.  The current state is outside the state universe only
\* if the declared initial state is, and then it stays there and every
\* transition call fails with the invalid-current-state error.
C13_InitialStateUnchecked ==
  phase = "built" =>
    /\ last.from = None => state = cls.state
    /\ state \notin Endpoints =>
         /\ cls.state \notin Endpoints
         /\ state = cls.state
         /\ Called => last.err = "InvalidCurrentState"

\* C13 as stated: the initial state of every machine that construction
\* produces is an endpoint of some declared pair.
C13_Original ==
  (phase = "built" /\ last.from = None) => state \in Endpoints

\* C13 witness: a machine built with an initial state that is no endpoint
\* has refused a transition to a declared target.
C13_Witness ==
  /\ Called
  /\ cls.state \notin Endpoints
  /\ state = cls.state
  /\ last.to \in Endpoints
  /\ last.err = "InvalidCurrentState"

\* C14: construction fails with the no-transitions-declared error, and
\* produces no machine, both when the declared transition list is empty and
\* when the class declares no transition list at all.
C14_NoTransitions ==
  (Constructed /\ (~cls.has_transitions \/ cls.transitions = << >>)) =>
    /\ phase = "failed"
    /\ error = "NoTransitions"
    /\ DOMAIN table = {}
    /\ state = None

----------------------------------------------------------------------------
\* The four errors that transition raises itself.
TransitionErrors ==
  {"InvalidCurrentState", "IllegalTransition", "GuardContractViolation", "GuardRejected"}

\* In the call described by c: the positions where a callable fetched from
\* key fn was called, whether the target's guard allowed it, whether an
\* action raised.
CallsIn(c, fn) == {k \in 1..Len(c.trace) : c.trace[k].fn = fn}
GuardAllowed(c) ==
  \/ GuardsOf(c.to) = {}
  \/ \E k \in CallsIn(c, "guard") : c.trace[k].ret = "True"
ActionRaised(c) ==
  \E k \in CallsIn(c, "on_exit") \cup CallsIn(c, "on_enter") : c.trace[k].ret = "raise"

\* C15 (as amended): a transition call that fails with one of the four
\* transition errors leaves current_state and the table exactly as they were,
\* so the machine stays usable: from a non-terminal state, the call that
\* follows immediately, to a declared target whose guard is absent or returns
\* True, succeeds unless one of its actions raises.
C15_UsableAfterError ==
  [][phase = "built" =>
       /\ (last' # last /\ last'.err \in TransitionErrors) =>
            (state' = state /\ table' = table)
       /\ (/\ Called
           /\ last.err \in TransitionErrors
           /\ HasOutgoing(state)
           /\ last' # last
           /\ Declared(state, last'.to)
           /\ GuardAllowed(last')
           /\ ~ActionRaised(last')) =>
            (last'.err = "none" /\ state' = last'.to)]_vars

\* C15 as stated: the following call succeeds whenever the target is declared
\* and its guard is absent or returns True.
C15_Original ==
  [][phase = "built" =>
       /\ (last' # last /\ last'.err \in TransitionErrors) =>
            (state' = state /\ table' = table)
       /\ (/\ Called
           /\ last.err \in TransitionErrors
           /\ HasOutgoing(state)
           /\ last' # last
           /\ Declared(state, last'.to)
           /\ GuardAllowed(last')) =>
            (last'.err = "none" /\ state' = last'.to)]_vars

\* C15 witness: a guard has just turned a transition down in a state from
\* which a declared transition to a guarded state with an enter action leads.
C15_Witness ==
  /\ Called
  /\ last.err = "GuardRejected"
  /\ state = last.from
  /\ \E p \in Pairs :
       p[1] = state /\ GuardsOf(p[2]) # {} /\ EnterActionsOf(p[2]) # {}

----------------------------------------------------------------------------
\* The threads whose call has written __state__ and not yet returned.
Committed == {t \in Threads : threads[t].pc = "done" /\ threads[t].err = "none"}

\* C16: one instance is not safe for unsynchronized concurrent transition
\* calls.  Every call checks its target against the state it read when it
\* began, and commits only a pair declared from that state; since the read,
\* the lookups and the write are separate steps, the state it overwrites may
\* be another one, written meanwhile by a second call that passed its lookups
\* against the same old state (see the witness).
C16_CommitsAgainstReadState ==
  \A t \in Threads :
    /\ threads[t].pc \in {"guard", "exit", "enter", "write"} =>
         Declared(threads[t].from, threads[t].to)
    /\ t \in Committed =>
         /\ Declared(threads[t].from, threads[t].to)
         /\ ~Declared(threads[t].overwrote, threads[t].to) =>
              threads[t].overwrote # threads[t].from

\* C16 witness: two calls began in the same state s and both committed; the
\* second write moved current_state out of a terminal state, along a pair
\* that is not declared.
C16_Witness ==
  \E t \in Committed, u \in Committed :
    /\ t # u
    /\ threads[t].from = threads[u].from
    /\ threads[u].overwrote = threads[u].from
    /\ threads[t].overwrote = threads[u].to
    /\ ~HasOutgoing(threads[t].overwrote)
    /\ ~Declared(threads[t].overwrote, threads[t].to)
    /\ state = threads[t].to

----------------------------------------------------------------------------
\* C17: building the state registry and the transition table invokes no
\* action and no guard: after construction, successful or failed, and before
\* any transition call, the trace of calls is empty.
C17_ConstructionCallsNothing ==
  (Constructed /\ last.from = None) => last.trace = << >>

\* C17 witness: a machine has been built from a class that declares actions
\* and guards, and no transition has been called on it.
C17_Witness ==
  /\ phase = "built"
  /\ last.from = None
  /\ Len(cls.actions) > 0
  /\ Len(cls.guards) > 0

\* The registry record of state s as the declarations prescribe it.
Registry(s) ==
  [on_enter |-> IF EnterActionsOf(s) = {} THEN 0 ELSE CHOOSE i \in EnterActionsOf(s) : TRUE,
   on_exit |-> IF ExitActionsOf(s) = {} THEN 0 ELSE CHOOSE i \in ExitActionsOf(s) : TRUE,
   guard |-> IF GuardsOf(s) = {} THEN 0 ELSE CHOOSE i \in GuardsOf(s) : TRUE]

\* A list of pairs with every repetition of an earlier pair removed.
RECURSIVE Dedup(_)
Dedup(ts) ==
  IF ts = << >> THEN << >>
  ELSE LET front == Dedup(SubSeq(ts, 1, Len(ts) - 1))
           p == ts[Len(ts)]
       IN IF p \in Range(front) THEN front ELSE Append(front, p)

\* C18: repeated (begin, end) pairs in the declared list are no error and
\* change nothing: construction ends as it does for the list without the
\* repetitions, with the same table; table[begin][end] exists exactly for
\* the declared pairs, and holds the registry records of begin and of end.
C18_DuplicatePairs ==
  (Constructed /\ cls.has_transitions) =>
    LET plain == create_lookup_table([cls EXCEPT !.transitions = Dedup(cls.transitions)])
    IN /\ error = plain.err
       /\ table = plain.table
       /\ phase = "built" =>
            /\ DOMAIN table = {p[1] : p \in Pairs}
            /\ \A b \in DOMAIN table : DOMAIN table[b] = {p[2] : p \in {q \in Pairs : q[1] = b}}
            /\ \A p \in Pairs :
                 table[p[1]][p[2]] =
                   [beginning_state |-> Registry(p[1]), end_state |-> Registry(p[2])]

\* C18 witness: a machine has been built from a list that repeats a pair,
\* with an action and a guard in its registry.
C18_Witness ==
  /\ phase = "built"
  /\ Len(cls.transitions) > Cardinality(Pairs)
  /\ Len(cls.actions) > 0
  /\ Len(cls.guards) > 0

\* C19: get_state() is a pure read (it returns the current state and changes
\* nothing, so two calls in a row return the same value), no get_state or
\* transition call modifies the table after construction, and current_state
\* is changed only by a transition call that succeeds.
C19_Frame ==
  [][phase = "built" =>
       /\ table' = table
       /\ state' # state =>
            /\ last' # last
            /\ last'.err = "none"
            /\ last'.from = state
            /\ last'.to = state'
       /\ last' = last =>
            /\ state' = state
            /\ returned' = get_state(state)
       /\ (last' = last /\ returned = get_state(state)) => returned' = returned]_vars

\* C19 witness: get_state() has returned the current state, which is not the
\* initial one, and the last transition call failed after invoking an action.
C19_Witness ==
  /\ Called
  /\ last.err = "ActionRaised"
  /\ state # cls.state
  /\ returned = state

\* The states reachable from the states of S by declared transitions.
RECURSIVE ReachableFrom(_)
ReachableFrom(S) ==
  LET more == S \cup {p[2] : p \in {q \in Pairs : q[1] \in S}}
  IN IF more = S THEN S ELSE ReachableFrom(more)

\* C20: under sequential use every change of current_state from s to t is
\* along a declared pair (s, t), so current_state is always the initial state
\* or a state that a path of declared transitions reaches from it; a state
\* that no such path reaches is never entered.
C20_DeclaredPathsOnly ==
  phase = "built" =>
    /\ state \in ReachableFrom({cls.state})
    /\ (Called /\ state # last.from) => Declared(last.from, state)

\* C20 witness: the machine is back in its initial state after a successful
\* transition from another state.
C20_Witness ==
  /\ Called
  /\ last.err = "none"
  /\ state = cls.state
  /\ last.from # state

====
